---- MODULE Spec2Model ----
(***************************************************************************)
(* Mail-to-knowledge ingestion pipeline of ai-mail-parser-aggregator.      *)
(*                                                                         *)
(* State machines sharing this module:                                     *)
(*   SpecGraph    KnowledgeDatabase.add_knowledge called on a property     *)
(*                graph that carries the uniqueness constraints created by *)
(*                create_constraints_and_indexes;                          *)
(*   SpecConcurrent two add_knowledge calls interleaved by statement;      *)
(*   SpecSender   the sender filter on one From header;                    *)
(*   SpecPipeline TextProcessorWrapper.process and calculate_savings;      *)
(*   SpecWebsite  KnowledgeDatabase._extract_website_from_url;             *)
(*   SpecRun      MailProcessor.process_emails, one step per statement;    *)
(*   SpecProvision KnowledgeDatabase.__init__ and add_knowledge;            *)
(*   SpecArtifact the end of the loop body of process_emails;              *)
(*   SpecFetch    MailFetcher.fetch_basic_emails.                          *)
(* Text (names, URLs, senders) is a sequence of one-character strings.     *)
(***************************************************************************)
EXTENDS Integers, Sequences, FiniteSets, Bags, TLC

VARIABLES
    nodes,      \* the graph's nodes, in creation order; a node's id is its index
    edges,      \* the graph's relationships: a bag of [type, src, dst] over node ids
    history,    \* the add_knowledge calls made so far: arguments and outcome
    sender,     \* SpecSender: the From header of a fetched message
    approved,   \* SpecSender: the approved-sender allow-list
    selected,   \* SpecSender: the sender filter's verdict, "unset" before it ran
    pc,               \* process_emails: where the run stands
    runs,             \* process_emails invocations started
    config_items,     \* ids of the items the config repository holds
    mailbox,          \* the messages the IMAP search of the window matches
    emails,           \* process_emails: the fetched headers
    mails_to_process, \* process_emails: the headers that passed the sender filter
    idx,              \* process_emails: position of the loop in mails_to_process
    window,           \* process_emails: mail_start_window, mail_end_window
    process_audits,   \* process_emails: the ProcessingMailAudit list
    blob_store,       \* the object store: the blobs uploaded, in order
    audit_store,      \* the audit repository: the ProcessingAudit items created
    result,           \* outcome of the latest process_emails invocation
    log,              \* the boundary calls the current invocation made, in order
    pipeline_text,       \* SpecPipeline: the text given to TextProcessorWrapper.process
    pipeline_processors, \* SpecPipeline: the wrapper's processor list
    pipeline_result,     \* SpecPipeline: <<>> before process ran, then <<[text, audits]>>
    size_pair,           \* SpecPipeline: the sizes given to calculate_savings
    savings_percentage,  \* SpecPipeline: <<>> before calculate_savings ran, then <<value>>
    given_url,           \* SpecWebsite: the URL given to _extract_website_from_url
    derived_website,     \* SpecWebsite: <<>> before it ran, then <<website>>
    workers,             \* SpecConcurrent: the add_knowledge calls under way
    returned,            \* SpecArtifact: <<>>, or <<what process_email returned>>
    headerless,          \* ids of matched messages whose header FETCH returns no data
    fetch_max,           \* SpecFetch: max_emails of the direct fetch_basic_emails call
    basic_emails,        \* SpecFetch: <<>> before that call, then <<the list returned>>
    constructed,         \* whether a KnowledgeDatabase has been constructed
    constraints,         \* the labels with a uniqueness constraint on name
    indexes,             \* the labels with an index on name
    provisioning_calls   \* create_constraints_and_indexes calls on the
                         \* KnowledgeDatabase in use

gvars == <<nodes, edges, history>>
svars == <<sender, selected>>
rvars == <<pc, runs, config_items, mailbox, emails, mails_to_process, idx, window,
           process_audits, blob_store, audit_store, result, log>>
pvars == <<pipeline_text, pipeline_processors, pipeline_result, size_pair,
           savings_percentage>>
wvars == <<given_url, derived_website>>
cvars == <<workers>>
kvars == <<constructed, constraints, indexes, provisioning_calls>>
avars == <<returned>>
fvars == <<headerless, fetch_max, basic_emails>>

-----------------------------------------------------------------------------
(* Bounds *)

MaxCalls == 2
MaxSenderLen == 4
MaxMails == 3
MaxRuns == 2
MaxTextLen == 4
MaxProcessors == 2
MaxSize == 4
MaxUrlRest == 3

-----------------------------------------------------------------------------
(* knowledge_database.py: labels, relationship types *)

CONCEPT_LABEL == "Concept"
KEYWORD_LABEL == "Keyword"
URL_LABEL == "URL"
WEBSITE_LABEL == "Website"
EMAIL_LABEL == "Email"
SOURCE_LABEL == "Source"

Labels ==
    {CONCEPT_LABEL, KEYWORD_LABEL, URL_LABEL, WEBSITE_LABEL, EMAIL_LABEL, SOURCE_LABEL}

REPRESENTS_RELATIONSHIP == "REPRESENTS"
DESCRIBES_RELATIONSHIP == "DESCRIBES"
CONTAINS_RELATIONSHIP == "CONTAINS"
HOSTS_RELATIONSHIP == "HOSTS"
SENDS_RELATIONSHIP == "SENDS"

RelationshipTypes ==
    {REPRESENTS_RELATIONSHIP, DESCRIBES_RELATIONSHIP, CONTAINS_RELATIONSHIP,
     HOSTS_RELATIONSHIP, SENDS_RELATIONSHIP}

\* A node that is not a Concept carries no topic property.
NoTopic == <<>>

-----------------------------------------------------------------------------
(* Text helpers: Python str operations on sequences of characters *)

\* str.startswith
StartsWith(s, prefix) ==
    /\ Len(s) >= Len(prefix)
    /\ SubSeq(s, 1, Len(prefix)) = prefix

\* s[n:]
DropPrefix(s, n) == SubSeq(s, n + 1, Len(s))

\* s.split(sep)[0]: the text before the first sep, or all of s without one
BeforeFirst(s, sep) ==
    IF \E i \in 1..Len(s) : s[i] = sep
    THEN LET i == CHOOSE j \in 1..Len(s) :
                      /\ s[j] = sep
                      /\ \A k \in 1..(j - 1) : s[k] # sep
         IN SubSeq(s, 1, i - 1)
    ELSE s

HttpPrefix == <<"h", "t", "t", "p", ":", "/", "/">>
HttpsPrefix == <<"h", "t", "t", "p", "s", ":", "/", "/">>

\* _extract_website_from_url without the `elif` for "https://"
ExtractWebsiteHttpOnly(url) ==
    LET stripped == IF StartsWith(url, HttpPrefix)
                    THEN DropPrefix(url, Len(HttpPrefix))
                    ELSE url
    IN BeforeFirst(stripped, "/")

\* KnowledgeDatabase._extract_website_from_url
ExtractWebsiteFromUrl(url) ==
    LET stripped == IF StartsWith(url, HttpPrefix)
                    THEN DropPrefix(url, Len(HttpPrefix))
                    ELSE IF StartsWith(url, HttpsPrefix)
                    THEN DropPrefix(url, Len(HttpsPrefix))
                    ELSE url
    IN BeforeFirst(stripped, "/")

\* datetime.isoformat(): the text stored in created_at
IsoFormat(t) == <<"iso", t>>

\* Python's None
None == <<"None">>

\* The characters str.strip() removes
Whitespace == {" ", "\n"}

\* str.strip()
Strip(s) ==
    LET kept == {i \in 1..Len(s) : s[i] \notin Whitespace}
    IN IF kept = {} THEN <<>>
       ELSE SubSeq(s, CHOOSE i \in kept : \A j \in kept : i <= j,
                      CHOOSE i \in kept : \A j \in kept : j <= i)

\* char in s
Contains(s, char) == \E i \in 1..Len(s) : s[i] = char

\* The positions where re.search(r"<([^>]+)>", s) can match: a "<", then at
\* least one character that is not ">", then a ">" further on.
BracketStarts(s) ==
    {i \in 1..Len(s) :
        /\ s[i] = "<"
        /\ i + 1 <= Len(s)
        /\ s[i + 1] # ">"
        /\ \E j \in (i + 2)..Len(s) : s[j] = ">"}

\* Mutant of ExtractEmailFromSender: group(0), the brackets included, in
\* place of group(1).
ExtractEmailWholeMatch(s) ==
    IF BracketStarts(s) # {}
    THEN LET i == CHOOSE x \in BracketStarts(s) : \A y \in BracketStarts(s) : x <= y
             j == CHOOSE x \in (i + 2)..Len(s) :
                      /\ s[x] = ">"
                      /\ \A y \in (i + 2)..(x - 1) : s[y] # ">"
         IN SubSeq(s, i, j)
    ELSE IF Contains(s, "@") THEN Strip(s)
    ELSE None

\* MailProcessor._extract_email_from_sender
ExtractEmailFromSender(s) ==
    IF BracketStarts(s) # {}
    THEN LET i == CHOOSE x \in BracketStarts(s) : \A y \in BracketStarts(s) : x <= y
             j == CHOOSE x \in (i + 2)..Len(s) :
                      /\ s[x] = ">"
                      /\ \A y \in (i + 2)..(x - 1) : s[y] # ">"
         IN SubSeq(s, i + 1, j - 1)
    ELSE IF Contains(s, "@") THEN Strip(s)
    ELSE None

\* process_emails, lines 133-137: the sender filter's test for one message
PassesFilter(s, allowed) == ExtractEmailFromSender(s) \in allowed

-----------------------------------------------------------------------------
(* Inputs of add_knowledge *)

UrlA1 == <<"h", "t", "t", "p", "s", ":", "/", "/", "a", "/", "x">>
UrlA2 == <<"h", "t", "t", "p", ":", "/", "/", "a">>
UrlB == <<"b", "/", "y">>

NameA == <<"A">>
NameB == <<"B">>
TopicT == <<"t">>
TopicV == <<"v">>
KwK == <<"k">>
KwL == <<"l">>
NameU == <<"U">>

\* KnowledgeConcept values the extractor may hand over
ConceptA == [name |-> NameA, topic |-> TopicT, urls |-> <<UrlA1>>, keywords |-> <<KwK>>]
ConceptAv == [name |-> NameA, topic |-> TopicV, urls |-> <<>>, keywords |-> <<KwL>>]
ConceptB ==
    [name |-> NameB, topic |-> TopicT, urls |-> <<UrlA2, UrlB>>, keywords |-> <<KwK, KwL>>]

\* A concept with a URL and no keyword
ConceptU == [name |-> NameU, topic |-> TopicT, urls |-> <<UrlB>>, keywords |-> <<>>]

\* The concept lists add_knowledge is called with
ConceptLists ==
    { <<>>, <<ConceptA>>, <<ConceptAv>>, <<ConceptB>>, <<ConceptU>>,
      <<ConceptA, ConceptB>>, <<ConceptB, ConceptA>>,
      <<ConceptAv, ConceptB>>, <<ConceptA, ConceptAv, ConceptB>> }

EmailIds == {<<"m", "1">>, <<"m", "2">>}
Timestamps == {1, 2}
Sources == {<<"s", "@", "x">>}
Databases == {"db1", "db2"}

-----------------------------------------------------------------------------
(* The graph database: Cypher MERGE under the uniqueness constraints *)

\* MERGE (n:<label>:<database> {name: .., [topic: ..]}): the pattern matches a
\* node that has both labels and every listed property.
NodeMatches(n, label, db, name, topic) ==
    /\ n.label = label
    /\ n.db = db
    /\ n.name = name
    /\ n.topic = topic

\* Mutant of UniqueViolation: the constraints were never created.
UniqueViolationUnconstrained(ns, label, name) == FALSE

\* CREATE CONSTRAINT ON (x:<label>) ASSERT x.name IS UNIQUE: creating a node
\* is refused when a node of that label already has the name.
UniqueViolation(ns, label, name) ==
    \E i \in 1..Len(ns) : ns[i].label = label /\ ns[i].name = name

\* Mutant of OnMatch: SET without ON CREATE, so that a match is stamped again.
OnMatchAlwaysSet(n, ts) == [n EXCEPT !.created_at = IsoFormat(ts)]

\* ON CREATE SET n.created_at = ..: a node the MERGE matched is left as it is.
OnMatch(n, ts) == n

\* The node a MERGE creates, with ON CREATE SET n.created_at = isoformat
OnCreate(label, db, name, topic, ts) ==
    [label |-> label, db |-> db, name |-> name, topic |-> topic,
     created_at |-> IsoFormat(ts)]

\* merge(...).node(labels=[label, database], name=.., [topic=..], variable="n")
\*     .add_custom_cypher("ON CREATE").set_(n.created_at = ..).execute()
\* r is [nodes, edges, ok]; ok = FALSE is the exception the statement raises.
MergeNode(r, label, db, name, topic, ts) ==
    LET matched == {i \in 1..Len(r.nodes) : NodeMatches(r.nodes[i], label, db, name, topic)}
    IN IF matched # {}
       THEN [r EXCEPT !.nodes = [i \in 1..Len(r.nodes) |->
                                    IF i \in matched THEN OnMatch(r.nodes[i], ts)
                                    ELSE r.nodes[i]]]
       ELSE IF UniqueViolation(r.nodes, label, name)
       THEN [r EXCEPT !.ok = FALSE]
       ELSE [r EXCEPT !.nodes = Append(r.nodes, OnCreate(label, db, name, topic, ts))]

\* match().node(labels=[label, database], name=..): ids of the matching nodes
MatchNodes(ns, label, db, name) ==
    {i \in 1..Len(ns) : ns[i].label = label /\ ns[i].db = db /\ ns[i].name = name}

\* Mutant of MergeRelationship: CREATE in place of MERGE.
MergeRelationshipAsCreate(es, type, src, dst) ==
    es (+) SetToBag({[type |-> type, src |-> src, dst |-> dst]})

\* MERGE (src)-[:TYPE]->(dst): creates the relationship unless one exists
MergeRelationship(es, type, src, dst) ==
    LET e == [type |-> type, src |-> src, dst |-> dst]
    IN IF BagIn(e, es) THEN es ELSE es (+) SetToBag({e})

\* MERGE (src)-[:TYPE]->(dst) for every row (src, dst) of the preceding MATCH
RECURSIVE MergeRows(_, _, _)
MergeRows(es, type, rows) ==
    IF rows = {} THEN es
    ELSE LET row == CHOOSE x \in rows : TRUE
         IN MergeRows(MergeRelationship(es, type, row[1], row[2]), type, rows \ {row})

\* The URL statement with the HOSTS pattern written from the URL to the
\* website
MergeUrlEdgesReversed(r, db, cname, url, website) ==
    LET ud == MatchNodes(r.nodes, CONCEPT_LABEL, db, cname)
        us == MatchNodes(r.nodes, URL_LABEL, db, url)
        ws == MatchNodes(r.nodes, WEBSITE_LABEL, db, website)
        describes == IF ws = {} THEN {} ELSE us \X ud
        hosts == IF ud = {} THEN {} ELSE us \X ws
    IN [r EXCEPT !.edges =
            MergeRows(MergeRows(r.edges, DESCRIBES_RELATIONSHIP, describes),
                      HOSTS_RELATIONSHIP, hosts)]

\* add_knowledge, lines 167-191: MATCH concept, URL, website;
\* MERGE (us)-[:DESCRIBES]->(ud) MERGE (ws)-[:HOSTS]->(us)
MergeUrlEdges(r, db, cname, url, website) ==
    LET ud == MatchNodes(r.nodes, CONCEPT_LABEL, db, cname)
        us == MatchNodes(r.nodes, URL_LABEL, db, url)
        ws == MatchNodes(r.nodes, WEBSITE_LABEL, db, website)
        describes == IF ws = {} THEN {} ELSE us \X ud
        hosts == IF ud = {} THEN {} ELSE ws \X us
    IN [r EXCEPT !.edges =
            MergeRows(MergeRows(r.edges, DESCRIBES_RELATIONSHIP, describes),
                      HOSTS_RELATIONSHIP, hosts)]

\* add_knowledge, lines 222-256: MATCH concept, keyword, email, source;
\* MERGE (ks)-[:REPRESENTS]->(kd) MERGE (es)-[:CONTAINS]->(ks)
\* MERGE (ss)-[:SENDS]->(es)
MergeKeywordEdges(r, db, cname, keyword, email_id, source) ==
    LET kd == MatchNodes(r.nodes, CONCEPT_LABEL, db, cname)
        ks == MatchNodes(r.nodes, KEYWORD_LABEL, db, keyword)
        es == MatchNodes(r.nodes, EMAIL_LABEL, db, email_id)
        ss == MatchNodes(r.nodes, SOURCE_LABEL, db, source)
        rows == kd # {} /\ ks # {} /\ es # {} /\ ss # {}
        represents == IF rows THEN ks \X kd ELSE {}
        contains == IF rows THEN es \X ks ELSE {}
        sends == IF rows THEN ss \X es ELSE {}
    IN [r EXCEPT !.edges =
            MergeRows(MergeRows(MergeRows(r.edges, REPRESENTS_RELATIONSHIP, represents),
                                CONTAINS_RELATIONSHIP, contains),
                      SENDS_RELATIONSHIP, sends)]

\* An exception raised by a statement ends the call: nothing after it runs.
Then(r, next) == IF r.ok THEN next ELSE r

\* add_knowledge, lines 146-191: the body of `for url in concept.urls`
IngestUrl(r, db, cname, url, ts) ==
    LET website == ExtractWebsiteFromUrl(url)
        r1 == MergeNode(r, URL_LABEL, db, url, NoTopic, ts)
        r2 == Then(r1, MergeNode(r1, WEBSITE_LABEL, db, website, NoTopic, ts))
    IN Then(r2, MergeUrlEdges(r2, db, cname, url, website))

\* add_knowledge, lines 193-256: the body of `for keyword in concept.keywords`
IngestKeyword(r, db, cname, keyword, email_id, ts, source) ==
    LET r1 == MergeNode(r, KEYWORD_LABEL, db, keyword, NoTopic, ts)
        r2 == Then(r1, MergeNode(r1, EMAIL_LABEL, db, email_id, NoTopic, ts))
        r3 == Then(r2, MergeNode(r2, SOURCE_LABEL, db, source, NoTopic, ts))
    IN Then(r3, MergeKeywordEdges(r3, db, cname, keyword, email_id, source))

RECURSIVE IngestUrls(_, _, _, _, _)
IngestUrls(r, db, cname, urls, ts) ==
    IF urls = <<>> \/ ~r.ok THEN r
    ELSE IngestUrls(IngestUrl(r, db, cname, Head(urls), ts), db, cname, Tail(urls), ts)

RECURSIVE IngestKeywords(_, _, _, _, _, _, _)
IngestKeywords(r, db, cname, keywords, email_id, ts, source) ==
    IF keywords = <<>> \/ ~r.ok THEN r
    ELSE IngestKeywords(IngestKeyword(r, db, cname, Head(keywords), email_id, ts, source),
                        db, cname, Tail(keywords), email_id, ts, source)

\* The loop body with the Email and Source nodes merged once per concept,
\* ahead of the keyword loop
IngestConceptWithProvenance(r, db, concept, email_id, ts, source) ==
    LET r1 == MergeNode(r, CONCEPT_LABEL, db, concept.name, concept.topic, ts)
        r2 == Then(r1, MergeNode(r1, EMAIL_LABEL, db, email_id, NoTopic, ts))
        r3 == Then(r2, MergeNode(r2, SOURCE_LABEL, db, source, NoTopic, ts))
        r4 == Then(r3, IngestUrls(r3, db, concept.name, concept.urls, ts))
    IN Then(r4, IngestKeywords(r4, db, concept.name, concept.keywords, email_id, ts, source))

\* add_knowledge, lines 135-256: the body of `for concept in concepts`
IngestConcept(r, db, concept, email_id, ts, source) ==
    LET r1 == MergeNode(r, CONCEPT_LABEL, db, concept.name, concept.topic, ts)
        r2 == Then(r1, IngestUrls(r1, db, concept.name, concept.urls, ts))
    IN Then(r2, IngestKeywords(r2, db, concept.name, concept.keywords, email_id, ts, source))

\* KnowledgeDatabase.add_knowledge: the loop has no try/except, so a statement
\* that raises ends the call. r.done counts the concepts ingested in full.
RECURSIVE add_knowledge(_, _, _, _, _, _)
add_knowledge(r, db, concepts, email_id, ts, source) ==
    IF concepts = <<>> THEN r
    ELSE LET r1 == IngestConcept(r, db, Head(concepts), email_id, ts, source)
         IN IF r1.ok
            THEN add_knowledge([r1 EXCEPT !.done = @ + 1], db, Tail(concepts),
                               email_id, ts, source)
            ELSE r1

-----------------------------------------------------------------------------
(* SpecGraph: add_knowledge calls on one graph *)

InitGraph ==
    /\ nodes = <<>>
    /\ edges = EmptyBag
    /\ history = <<>>

\* create_constraints_and_indexes leaving out the Source label
CreateConstraintsAndIndexesWithoutSource(constrained, indexed) ==
    [constraints |-> constrained \cup (Labels \ {SOURCE_LABEL}),
     indexes |-> indexed \cup (Labels \ {SOURCE_LABEL})]

\* KnowledgeDatabase.create_constraints_and_indexes: CREATE CONSTRAINT ON
\* (x:<label>) ASSERT x.name IS UNIQUE and CREATE INDEX ON :<label>(name) for
\* each of the six labels
create_constraints_and_indexes(constrained, indexed) ==
    [constraints |-> constrained \cup Labels, indexes |-> indexed \cup Labels]

\* A Memgraph instance nothing has connected to yet
InitMemgraph ==
    /\ constructed = FALSE
    /\ constraints = {}
    /\ indexes = {}
    /\ provisioning_calls = 0

\* The state a constructed KnowledgeDatabase starts from
InitKnowledgeDatabase ==
    /\ constructed = TRUE
    /\ constraints = create_constraints_and_indexes({}, {}).constraints
    /\ indexes = create_constraints_and_indexes({}, {}).indexes
    /\ provisioning_calls = 1

\* KnowledgeDatabase.__init__: connect, count the nodes, then call
\* create_constraints_and_indexes once. application.py constructs the object
\* in lifespan(), which runs at application start and again inside every
\* scheduled_mail_processor trigger, so the statements may be issued against
\* a graph that has the constraints already.
Construct ==
    /\ LET made == create_constraints_and_indexes(constraints, indexes)
       IN /\ constraints' = made.constraints
          /\ indexes' = made.indexes
    /\ constructed' = TRUE
    /\ provisioning_calls' = 1
    /\ UNCHANGED <<gvars, svars, approved, rvars, pvars, wvars, cvars, avars, fvars>>

\* One call of KnowledgeDatabase(database=db).add_knowledge(concepts, email_id,
\* email_datetime, source); what it wrote before an exception stays written.
AddKnowledge ==
    \E db \in Databases, concepts \in ConceptLists, email_id \in EmailIds,
       ts \in Timestamps, source \in Sources :
        /\ constructed
        /\ Len(history) < MaxCalls
        /\ LET r == add_knowledge([nodes |-> nodes, edges |-> edges, ok |-> TRUE, done |-> 0],
                                  db, concepts, email_id, ts, source)
           IN /\ nodes' = r.nodes
              /\ edges' = r.edges
              /\ history' = Append(history,
                                   [db |-> db, concepts |-> concepts, email_id |-> email_id,
                                    ts |-> ts, source |-> source, ok |-> r.ok,
                                    done |-> r.done])
        /\ UNCHANGED <<svars, approved, rvars, pvars, wvars, cvars, kvars, avars, fvars>>

-----------------------------------------------------------------------------
(* SpecConcurrent: two add_knowledge calls on one database, each statement's
   .execute() a transaction of its own, the statements of the two calls
   interleaved in any order *)

\* One statement of add_knowledge
Statement(op, label, name, topic, cname) ==
    [op |-> op, label |-> label, name |-> name, topic |-> topic, cname |-> cname]

\* add_knowledge, lines 146-191: the statements of `for url in concept.urls`
RECURSIVE UrlStatements(_, _)
UrlStatements(cname, urls) ==
    IF urls = <<>> THEN <<>>
    ELSE <<Statement("merge_node", URL_LABEL, Head(urls), NoTopic, cname),
           Statement("merge_node", WEBSITE_LABEL, ExtractWebsiteFromUrl(Head(urls)),
                     NoTopic, cname),
           Statement("merge_url_edges", URL_LABEL, Head(urls), NoTopic, cname)>>
             \o UrlStatements(cname, Tail(urls))

\* add_knowledge, lines 193-256: the statements of `for keyword in
\* concept.keywords`
RECURSIVE KeywordStatements(_, _, _, _)
KeywordStatements(cname, keywords, email_id, source) ==
    IF keywords = <<>> THEN <<>>
    ELSE <<Statement("merge_node", KEYWORD_LABEL, Head(keywords), NoTopic, cname),
           Statement("merge_node", EMAIL_LABEL, email_id, NoTopic, cname),
           Statement("merge_node", SOURCE_LABEL, source, NoTopic, cname),
           Statement("merge_keyword_edges", KEYWORD_LABEL, Head(keywords), NoTopic, cname)>>
             \o KeywordStatements(cname, Tail(keywords), email_id, source)

\* add_knowledge, lines 135-256: the statements the call executes, in order
RECURSIVE Statements(_, _, _)
Statements(concepts, email_id, source) ==
    IF concepts = <<>> THEN <<>>
    ELSE <<Statement("merge_node", CONCEPT_LABEL, Head(concepts).name,
                     Head(concepts).topic, Head(concepts).name)>>
             \o UrlStatements(Head(concepts).name, Head(concepts).urls)
             \o KeywordStatements(Head(concepts).name, Head(concepts).keywords,
                                  email_id, source)
             \o Statements(Tail(concepts), email_id, source)

\* .execute() of one statement of the call c on the graph r
Execute(r, c, stmt) ==
    IF stmt.op = "merge_node"
    THEN MergeNode(r, stmt.label, c.db, stmt.name, stmt.topic, c.ts)
    ELSE IF stmt.op = "merge_url_edges"
    THEN MergeUrlEdges(r, c.db, stmt.cname, stmt.name, ExtractWebsiteFromUrl(stmt.name))
    ELSE MergeKeywordEdges(r, c.db, stmt.cname, stmt.name, c.email_id, c.source)

\* An add_knowledge call about to execute its first statement
Call(db, concepts, email_id, ts, source) ==
    [db |-> db, concepts |-> concepts, email_id |-> email_id, ts |-> ts,
     source |-> source, todo |-> Statements(concepts, email_id, source),
     state |-> "running"]

\* The pairs of calls: the same partition, overlapping concepts, URLs and
\* keywords, the same or another message
ConcurrentCalls ==
    {<<Call("db1", c1, <<"m", "1">>, 1, <<"s", "@", "x">>),
       Call("db1", c2, e2, t2, <<"s", "@", "x">>)>> :
        c1 \in {<<ConceptA>>, <<ConceptB>>},
        c2 \in {<<ConceptA>>, <<ConceptAv>>, <<ConceptB>>, <<ConceptAv, ConceptA>>},
        e2 \in EmailIds, t2 \in Timestamps}

InitConcurrentIdle == workers = <<>>

InitConcurrent == workers \in ConcurrentCalls

\* One call executes its next statement; an exception ends that call.
ExecuteStatement ==
    /\ \E w \in 1..Len(workers) :
        /\ workers[w].state = "running"
        /\ \E r \in {Execute([nodes |-> nodes, edges |-> edges, ok |-> TRUE, done |-> 0],
                             workers[w], Head(workers[w].todo))} :
            /\ nodes' = r.nodes
            /\ edges' = r.edges
            /\ workers' = [workers EXCEPT
                   ![w].todo = IF r.ok THEN Tail(@) ELSE @,
                   ![w].state = IF ~r.ok THEN "raised"
                                ELSE IF Len(workers[w].todo) = 1 THEN "returned"
                                ELSE "running"]
    /\ UNCHANGED <<history, svars, approved, rvars, pvars, wvars, kvars, avars, fvars>>

-----------------------------------------------------------------------------
(* SpecSender: the sender filter applied to one From header *)

RECURSIVE SeqsUpTo(_, _)
SeqsUpTo(S, n) ==
    IF n = 0 THEN {<<>>}
    ELSE LET shorter == SeqsUpTo(S, n - 1)
         IN shorter \cup {Append(x, c) : x \in shorter, c \in S}

SenderAlphabet == {"<", ">", "@", "a", " "}

ExampleAlice ==
    <<"A", "l", "i", "c", "e", " ", "<", "a", "@", "x", ".", "c", "o", "m", ">">>
ExampleBob == <<"b", "@", "y", ".", "c", "o", "m">>
ExampleBad == <<"b", "a", "d", "-", "f", "o", "r", "m", "a", "t">>
ExampleSenders == {ExampleAlice, ExampleBob, ExampleBad}
ExampleAllowList == {<<"a", "@", "x", ".", "c", "o", "m">>}

SenderTexts == SeqsUpTo(SenderAlphabet, MaxSenderLen) \cup ExampleSenders

AllowLists == {ExampleAllowList, {<<"a", "@", "a">>, <<"a">>}, {}}

InitSenderIdle ==
    /\ sender = <<>>
    /\ selected = "unset"

InitSender ==
    /\ sender \in SenderTexts
    /\ approved \in AllowLists
    /\ selected = "unset"

\* process_emails, lines 133-137, for one fetched message
FilterSender ==
    /\ selected = "unset"
    /\ selected' = IF PassesFilter(sender, approved) THEN "selected" ELSE "excluded"
    /\ UNCHANGED <<sender, approved, gvars, rvars, pvars, wvars, cvars, kvars, avars, fvars>>

-----------------------------------------------------------------------------

(* The text pipeline: text_processor.py, newsletter_cleaner.py, util.py *)

\* Message bodies. They are written over an alphabet in which no header,
\* footer, escape-sequence or e-mail pattern of NewsletterCleaner matches and
\* which holds no markup.
Bodies ==
    { <<>>, <<"a">>, <<" ", "a", "\n", "\n", "\n", "\n", " ", "a", " ">> }

\* calculate_savings giving the ratio instead of the percentage
CalculateSavingsRatio(start_size, end_size) ==
    IF start_size = 0 THEN <<0, 1>>
    ELSE <<start_size - end_size, start_size>>

\* calculate_savings without the guard for start_size == 0
CalculateSavingsUnguarded(start_size, end_size) ==
    <<(start_size - end_size) * 100, start_size>>

\* calculate_savings: the percentage as the fraction <<numerator, denominator>>
CalculateSavings(start_size, end_size) ==
    IF start_size = 0 THEN <<0, 1>>
    ELSE <<(start_size - end_size) * 100, start_size>>

\* HtmlProcessor.process_text: BeautifulSoup(text).get_text(separator="\n",
\* strip=True) of a text without markup is the text, stripped
HtmlProcessor(text) == Strip(text)

\* Number of "\n" the text starts with
RECURSIVE LeadingNewlines(_)
LeadingNewlines(s) ==
    IF s # <<>> /\ Head(s) = "\n" THEN 1 + LeadingNewlines(Tail(s)) ELSE 0

\* re.sub(WHITESPACE_PATTERN, "\n\n", text) with WHITESPACE_PATTERN = r"\n{3,}"
RECURSIVE CollapseNewlines(_)
CollapseNewlines(s) ==
    IF s = <<>> THEN <<>>
    ELSE LET n == LeadingNewlines(s)
         IN IF n = 0 THEN <<Head(s)>> \o CollapseNewlines(Tail(s))
            ELSE (IF n >= 3 THEN <<"\n", "\n">> ELSE SubSeq(s, 1, n))
                     \o CollapseNewlines(SubSeq(s, n + 1, Len(s)))

\* text.split("\n")
RECURSIVE SplitLines(_)
SplitLines(s) ==
    IF Contains(s, "\n")
    THEN LET line == BeforeFirst(s, "\n")
         IN <<line>> \o SplitLines(SubSeq(s, Len(line) + 2, Len(s)))
    ELSE <<s>>

\* "\n".join(line.strip() for line in lines)
RECURSIVE JoinStripped(_)
JoinStripped(lines) ==
    IF Len(lines) = 1 THEN Strip(lines[1])
    ELSE Strip(lines[1]) \o <<"\n">> \o JoinStripped(Tail(lines))

\* NewsletterCleaner.process_text with remove_emails and normalize_whitespace
NewsletterCleaner(text) ==
    IF text = <<>> THEN text
    ELSE Strip(JoinStripped(SplitLines(CollapseNewlines(text))))

\* The processors application.py wires into the TextProcessorWrapper
Processors == <<"HtmlProcessor", "NewsletterCleaner">>

\* processor.process_text(input, source)
ProcessText(processor, text) ==
    IF processor = "HtmlProcessor" THEN HtmlProcessor(text) ELSE NewsletterCleaner(text)

\* TextProcessorWrapper.process without `input = output`: every processor
\* gets the text the wrapper was given, which is also what is returned
RECURSIVE TextProcessorWrapperProcessStale(_, _, _)
TextProcessorWrapperProcessStale(processors, input, audits) ==
    IF processors = <<>> THEN [text |-> input, audits |-> audits]
    ELSE LET output == ProcessText(Head(processors), input)
             audit == [processor_name |-> Head(processors),
                       start_text_size |-> Len(input),
                       end_text_size |-> Len(output),
                       savings_percentage |-> CalculateSavings(Len(input), Len(output)),
                       tokens_used |-> 0]
         IN TextProcessorWrapperProcessStale(Tail(processors), input, Append(audits, audit))

\* TextProcessorWrapper.process: [text, audits]
RECURSIVE TextProcessorWrapperProcess(_, _, _)
TextProcessorWrapperProcess(processors, input, audits) ==
    IF processors = <<>> THEN [text |-> input, audits |-> audits]
    ELSE LET output == ProcessText(Head(processors), input)
             audit == [processor_name |-> Head(processors),
                       start_text_size |-> Len(input),
                       end_text_size |-> Len(output),
                       savings_percentage |-> CalculateSavings(Len(input), Len(output)),
                       tokens_used |-> 0]
         IN TextProcessorWrapperProcess(Tail(processors), output, Append(audits, audit))

-----------------------------------------------------------------------------
(* SpecPipeline: TextProcessorWrapper.process and calculate_savings as calls *)

\* A text whose two paragraphs are separated by a line holding one blank and
\* an empty line: "a\n \n\na"
SpacedBlankLines == <<"a", "\n", " ", "\n", "\n", "a">>

\* The texts given to the pipeline: every text of up to MaxTextLen characters
\* over a letter, a blank and a newline, and the message bodies
PipelineTexts ==
    SeqsUpTo({"a", " ", "\n"}, MaxTextLen) \cup Bodies \cup {SpacedBlankLines}

\* The processor lists a wrapper may be built with
ProcessorLists == SeqsUpTo({"HtmlProcessor", "NewsletterCleaner"}, MaxProcessors)

\* The size pairs given to calculate_savings
SizePairs == (0..MaxSize) \X (0..MaxSize)

InitPipelineIdle ==
    /\ pipeline_text = <<>>
    /\ pipeline_processors = <<>>
    /\ pipeline_result = <<>>
    /\ size_pair = <<0, 0>>
    /\ savings_percentage = <<>>

InitPipeline ==
    /\ \/ /\ pipeline_text \in PipelineTexts
          /\ pipeline_processors \in ProcessorLists
          /\ size_pair = <<0, 0>>
       \/ /\ pipeline_text = <<>>
          /\ pipeline_processors = <<>>
          /\ size_pair \in SizePairs
    /\ pipeline_result = <<>>
    /\ savings_percentage = <<>>

\* TextProcessorWrapper(pipeline_processors).process(pipeline_text, source)
Process ==
    /\ pipeline_result = <<>>
    /\ pipeline_result' =
           <<TextProcessorWrapperProcess(pipeline_processors, pipeline_text, <<>>)>>
    /\ UNCHANGED <<pipeline_text, pipeline_processors, size_pair, savings_percentage,
                   gvars, svars, approved, rvars, wvars, cvars, kvars, avars, fvars>>

\* calculate_savings(size_pair[1], size_pair[2])
Calculate ==
    /\ savings_percentage = <<>>
    /\ savings_percentage' = <<CalculateSavings(size_pair[1], size_pair[2])>>
    /\ UNCHANGED <<pipeline_text, pipeline_processors, pipeline_result, size_pair,
                   gvars, svars, approved, rvars, wvars, cvars, kvars, avars, fvars>>

-----------------------------------------------------------------------------
(* SpecWebsite: KnowledgeDatabase._extract_website_from_url as a call *)

ExampleNewsUrl ==
    HttpsPrefix \o <<"n", "e", "w", "s", ".", "e", "x", "a", "m", "p", "l", "e", ".",
                     "c", "o", "m", "/", "p", "a", "t", "h">>
ExampleNewsWebsite ==
    <<"n", "e", "w", "s", ".", "e", "x", "a", "m", "p", "l", "e", ".", "c", "o", "m">>
ExampleOrgUrl == HttpPrefix \o <<"e", "x", "a", "m", "p", "l", "e", ".", "o", "r", "g">>
ExampleOrgWebsite == <<"e", "x", "a", "m", "p", "l", "e", ".", "o", "r", "g">>

\* What a URL may start with: nothing, a scheme prefix, two of them, a cut or
\* upper-case prefix, another scheme
UrlStarts ==
    {<<>>, HttpPrefix, HttpsPrefix, HttpPrefix \o HttpsPrefix, HttpsPrefix \o HttpPrefix,
     HttpPrefix \o HttpPrefix, <<"h", "t", "t", "p", ":", "/">>,
     <<"H", "T", "T", "P", ":", "/", "/">>, <<"f", "t", "p", ":", "/", "/">>}

\* The URLs: a start followed by up to MaxUrlRest characters, and the examples
Urls ==
    {start \o rest : start \in UrlStarts, rest \in SeqsUpTo({"a", "/", "."}, MaxUrlRest)}
        \cup {ExampleNewsUrl, ExampleOrgUrl}

InitWebsiteIdle ==
    /\ given_url = <<>>
    /\ derived_website = <<>>

InitWebsite ==
    /\ given_url \in Urls
    /\ derived_website = <<>>

\* self._extract_website_from_url(given_url)
ExtractWebsite ==
    /\ derived_website = <<>>
    /\ derived_website' = <<ExtractWebsiteFromUrl(given_url)>>
    /\ UNCHANGED <<given_url, gvars, svars, approved, rvars, pvars, cvars, kvars, avars, fvars>>

-----------------------------------------------------------------------------
(* MailProcessor.process_emails *)

\* The config items process_emails reads, in the order it reads them
ConfigReads == <<"approved_mails", "llm_prompt", "concept_topic", "concept_topic">>

ConfigItems == {"approved_mails", "llm_prompt", "concept_topic"}

\* The repositories a run may find: everything configured, or one item missing
ConfigStates == {ConfigItems} \cup {ConfigItems \ {item} : item \in ConfigItems}

RunAllowLists == {ExampleAllowList, ExampleAllowList \cup {ExampleBob}}

MailDates == {1, 2}

\* The mailboxes: up to MaxMails messages; a message's id is its IMAP
\* sequence number
Mailboxes ==
    {[i \in 1..Len(m) |-> [id |-> i, date |-> m[i][2], sender |-> m[i][1]]] :
        m \in SeqsUpTo(ExampleSenders \X MailDates, MaxMails)}

\* The database the MailProcessor's KnowledgeDatabase is built for
KnowledgeDb == "db1"

\* An optional datetime: {} is None, {d} is the datetime d
NoDate == {}

\* min(mail_timestamps) taken as the timestamp of the first message
SeqMinFirst(ds) == ds[1]

RECURSIVE SeqMin(_)
SeqMin(ds) ==
    IF Len(ds) = 1 THEN ds[1]
    ELSE LET m == SeqMin(Tail(ds)) IN IF ds[1] <= m THEN ds[1] ELSE m

RECURSIVE SeqMax(_)
SeqMax(ds) ==
    IF Len(ds) = 1 THEN ds[1]
    ELSE LET m == SeqMax(Tail(ds)) IN IF ds[1] >= m THEN ds[1] ELSE m

\* email_ids[:max_emails]: the first matches, none for max_emails = 0
FirstN(ids, n) == SubSeq(ids, 1, IF n <= Len(ids) THEN n ELSE Len(ids))

\* email_ids[-max_emails:]
LastN(ids, n) ==
    IF n = 0 \/ n >= Len(ids) THEN ids ELSE SubSeq(ids, Len(ids) - n + 1, Len(ids))

\* MailFetcher._extract_basic_email: the Mail built from the FETCH response,
\* or None (here <<>>) when the response carries no message data
ExtractBasicEmail(message, without_headers) ==
    IF message.id \in without_headers THEN <<>> ELSE <<message>>

\* fetch_basic_emails, lines 93-99: `if mail: mails.append(mail)` over the ids
RECURSIVE ExtractBasicEmails(_, _)
ExtractBasicEmails(ids, without_headers) ==
    IF ids = <<>> THEN <<>>
    ELSE ExtractBasicEmail(Head(ids), without_headers)
             \o ExtractBasicEmails(Tail(ids), without_headers)

\* MailFetcher.fetch_basic_emails: the headers of the last max_emails matches
FetchBasicEmails(box, max_emails, without_headers) ==
    ExtractBasicEmails(LastN(box, max_emails), without_headers)

\* [email for email in emails if _extract_email_from_sender(email.sender) in
\* approved_mails]
RECURSIVE FilterApproved(_, _)
FilterApproved(ms, allowed) ==
    IF ms = <<>> THEN <<>>
    ELSE IF PassesFilter(Head(ms).sender, allowed)
         THEN <<Head(ms)>> \o FilterApproved(Tail(ms), allowed)
         ELSE FilterApproved(Tail(ms), allowed)

\* Mail.get_identifier: the message's stable identifier
GetIdentifier(mail) == <<"m", mail.id>>

\* What fetch_full_email_by_id may do: raise, or return the message with a body
BodyOutcomes ==
    {[kind |-> "raise", body |-> <<>>]} \cup {[kind |-> "mail", body |-> b] : b \in Bodies}

\* What KnowledgeExtractionLLM.get_response may do: raise ValueError, or
\* return a metered response
ExtractOutcomes ==
    {[kind |-> "raise", concepts |-> <<>>, total_tokens |-> 0, cached_tokens |-> 0]}
        \cup {[kind |-> "response", concepts |-> c, total_tokens |-> 7, cached_tokens |-> 0] :
                c \in {<<>>, <<ConceptA>>, <<ConceptA, ConceptB>>}}

\* The parameters add_knowledge declares, none with a default
AddKnowledgeParameters == {"concepts", "email_id", "email_datetime", "source"}

\* The keyword arguments process_email passes to add_knowledge
AddKnowledgeArguments == {"concepts", "email_id", "source"}

\* A Python call binds when every parameter without default gets an argument
\* and every keyword names a parameter; otherwise it raises TypeError.
CallBinds(parameters, arguments) == parameters = arguments

RECURSIVE SumLen(_, _)
SumLen(concepts, field) ==
    IF concepts = <<>> THEN 0
    ELSE Len(Head(concepts)[field]) + SumLen(Tail(concepts), field)

Event(op, id, item, ok) == [op |-> op, id |-> id, item |-> item, ok |-> ok]

NoResult == [kind |-> "none", value |-> 0, error |-> ""]
\* An exception swallowed inside process_emails, which then returns 0
RaisedSwallowed(error) == [kind |-> "returned", value |-> 0, error |-> ""]

Raised(error) == [kind |-> "raised", value |-> 0, error |-> error]

\* application.py, GET /process-emails: the count process_emails returned,
\* or HTTP 500 carrying the text of the exception that left it
ProcessEmailsEndpoint(outcome) ==
    IF outcome.kind = "raised"
    THEN [status_code |-> 500, detail |-> outcome.error, processed |-> <<>>]
    ELSE [status_code |-> 200, detail |-> "", processed |-> <<outcome.value>>]
Returned(value) == [kind |-> "returned", value |-> value, error |-> ""]

\* process_email, lines 221-239: the ProcessedMail it returns. email.body was
\* replaced by the cleaned text at line 208, so original_body_size (line 225)
\* is taken from the cleaned body.
ProcessedMail(cleaned_mail, response) ==
    [mail |-> cleaned_mail,
     original_body_size |-> Len(cleaned_mail.body),
     processed_body_size |-> Len(cleaned_mail.body),
     tokens_used |-> response.total_tokens,
     tokens_cached |-> response.cached_tokens,
     concept_count |-> Len(response.concepts),
     keyword_count |-> SumLen(response.concepts, "keywords"),
     url_count |-> SumLen(response.concepts, "urls"),
     concepts |-> response.concepts]

\* MailProcessor.process_email on the graph g = [nodes, edges, ok, done]: the
\* outcome, the boundary calls made, and the graph as the call leaves it
process_email(email, response, g) ==
    LET source == ExtractEmailFromSender(email.sender)
        cleaned == TextProcessorWrapperProcess(Processors, email.body, <<>>)
        cleaned_mail == [email EXCEPT !.body = cleaned.text]
        extract_event == Event("get_response", email.id, "", response.kind = "response")
        binds == CallBinds(AddKnowledgeParameters, AddKnowledgeArguments)
        r == add_knowledge(g, KnowledgeDb, response.concepts, GetIdentifier(cleaned_mail),
                           email.date, source)
        upsert_event == Event("add_knowledge", email.id, "", binds /\ r.ok)
    IN IF response.kind = "raise"
       THEN [ok |-> FALSE, error |-> "ValueError", events |-> <<extract_event>>,
             graph |-> g, called |-> FALSE]
       ELSE IF ~binds
       THEN [ok |-> FALSE, error |-> "TypeError",
             events |-> <<extract_event, upsert_event>>, graph |-> g, called |-> FALSE]
       ELSE IF ~r.ok
       THEN [ok |-> FALSE, error |-> "DatabaseError",
             events |-> <<extract_event, upsert_event>>, graph |-> r, called |-> TRUE]
       ELSE [ok |-> TRUE, error |-> "",
             events |-> <<extract_event, upsert_event>>, graph |-> r, called |-> TRUE,
             audits |-> cleaned.audits,
             processed_mail |-> ProcessedMail(cleaned_mail, response)]

\* The ProcessingMailAudit with its sizes copied from the ProcessedMail
ProcessingMailAuditFromProcessedMail(processed_mail, processing_audits, body_size_before) ==
    [mail_identifier |-> GetIdentifier(processed_mail.mail),
     mail_source |-> ExtractEmailFromSender(processed_mail.mail.sender),
     original_body_size |-> processed_mail.original_body_size,
     processed_body_size |-> processed_mail.processed_body_size,
     processing_body_savings_percentage |->
         CalculateSavings(processed_mail.original_body_size,
                          processed_mail.processed_body_size),
     processing_steps |-> processing_audits,
     tokens_used |-> processed_mail.tokens_used,
     tokens_cached |-> processed_mail.tokens_cached,
     concept_count |-> processed_mail.concept_count,
     keyword_count |-> processed_mail.keyword_count,
     url_count |-> processed_mail.url_count,
     concepts |-> processed_mail.concepts]

\* process_emails, lines 154-177: the ProcessingMailAudit built from what
\* process_email returned and the body size taken before it
ProcessingMailAudit(processed_mail, processing_audits, body_size_before) ==
    [mail_identifier |-> GetIdentifier(processed_mail.mail),
     mail_source |-> ExtractEmailFromSender(processed_mail.mail.sender),
     original_body_size |-> body_size_before,
     processed_body_size |-> Len(processed_mail.mail.body),
     processing_body_savings_percentage |->
         CalculateSavings(body_size_before, Len(processed_mail.mail.body)),
     processing_steps |-> processing_audits,
     tokens_used |-> processed_mail.tokens_used,
     tokens_cached |-> processed_mail.tokens_cached,
     concept_count |-> processed_mail.concept_count,
     keyword_count |-> processed_mail.keyword_count,
     url_count |-> processed_mail.url_count,
     concepts |-> processed_mail.concepts]

\* ProcessingAudit.serialise_date is called for each of the four date fields
\* by model_dump, None included, and None has no isoformat: it raises.
ModelDumpRaises(audit_record) ==
    \/ audit_record.mail_start_window = NoDate
    \/ audit_record.mail_end_window = NoDate

InitRunIdle ==
    /\ returned = <<>>
    /\ headerless = {}
    /\ fetch_max = 0
    /\ basic_emails = <<>>
    /\ pc = "idle"
    /\ runs = 0
    /\ config_items = ConfigItems
    /\ mailbox = <<>>
    /\ emails = <<>>
    /\ mails_to_process = <<>>
    /\ idx = 1
    /\ window = [start |-> NoDate, end |-> NoDate]
    /\ process_audits = <<>>
    /\ blob_store = <<>>
    /\ audit_store = <<>>
    /\ result = NoResult
    /\ log = <<>>

InitRun ==
    /\ returned = <<>>
    /\ headerless = {}
    /\ fetch_max = 0
    /\ basic_emails = <<>>
    /\ pc = "idle"
    /\ runs = 0
    /\ config_items \in ConfigStates
    /\ approved \in RunAllowLists
    /\ mailbox \in Mailboxes
    /\ emails = <<>>
    /\ mails_to_process = <<>>
    /\ idx = 1
    /\ window = [start |-> NoDate, end |-> NoDate]
    /\ process_audits = <<>>
    /\ blob_store = <<>>
    /\ audit_store = <<>>
    /\ result = NoResult
    /\ log = <<>>

\* AzureRepository.read_item never raising for an item the container lacks
ReadItemFindsAnything(items, item_id) == TRUE

\* AzureRepository.read_item: returns the item the container holds under the
\* id, raises CosmosResourceNotFoundError when it holds none
ReadItemFinds(items, item_id) == item_id \in items

\* process_emails, lines 126-131: a new invocation reads its configuration;
\* read_item raises for an item the repository does not hold.
LoadConfig ==
    /\ pc \in {"idle", "returned", "raised"}
    /\ runs < MaxRuns
    /\ runs' = runs + 1
    /\ LET missing == {i \in 1..Len(ConfigReads) :
                           ~ReadItemFinds(config_items, ConfigReads[i])}
           n == IF missing = {} THEN Len(ConfigReads)
                ELSE CHOOSE i \in missing : \A j \in missing : i <= j
       IN /\ log' = [i \in 1..n |->
                        Event("read_item", 0, ConfigReads[i],
                              ReadItemFinds(config_items, ConfigReads[i]))]
          /\ pc' = IF missing = {} THEN "fetch" ELSE "raised"
          /\ result' = IF missing = {} THEN NoResult
                       ELSE Raised("CosmosResourceNotFoundError")
    /\ emails' = <<>>
    /\ mails_to_process' = <<>>
    /\ idx' = 1
    /\ window' = [start |-> NoDate, end |-> NoDate]
    /\ process_audits' = <<>>
    /\ UNCHANGED <<gvars, svars, approved, config_items, mailbox, blob_store, audit_store,
                   pvars, wvars, cvars, kvars, avars, fvars>>

\* process_emails, lines 132-142: fetch the headers, filter by sender, take
\* the window; the mail source may be unreachable.
FetchAndFilter ==
    /\ pc = "fetch"
    /\ \E reachable \in BOOLEAN :
        LET fetched == FetchBasicEmails(mailbox, 0, headerless)
            kept == FilterApproved(fetched, approved)
            mail_timestamps == [i \in 1..Len(kept) |-> kept[i].date]
        IN /\ log' = Append(log, Event("fetch_basic_emails", 0, "", reachable))
           /\ IF reachable
              THEN /\ emails' = fetched
                   /\ mails_to_process' = kept
                   /\ window' = [start |-> IF Len(mail_timestamps) > 0
                                           THEN {SeqMin(mail_timestamps)} ELSE NoDate,
                                 end |-> IF Len(mail_timestamps) > 0
                                         THEN {SeqMax(mail_timestamps)} ELSE NoDate]
                   /\ pc' = "loop"
                   /\ result' = result
              ELSE /\ pc' = "raised"
                   /\ result' = Raised("ConnectorError")
                   /\ UNCHANGED <<emails, mails_to_process, window>>
    /\ UNCHANGED <<gvars, svars, approved, runs, config_items, mailbox, idx, process_audits,
                   blob_store, audit_store, pvars, wvars, cvars, kvars, avars, fvars>>

\* process_emails, lines 143-186: one pass of `for basic_email in
\* mails_to_process`. Nothing in it is caught: a raise ends the invocation.
ProcessMessage ==
    /\ pc = "loop"
    /\ idx <= Len(mails_to_process)
    /\ \E fetched \in BodyOutcomes, response \in ExtractOutcomes :
        LET basic_email == mails_to_process[idx]
            fetch_event == Event("fetch_full_email_by_id", basic_email.id, "",
                                 fetched.kind = "mail")
            email == [id |-> basic_email.id, date |-> basic_email.date,
                      sender |-> basic_email.sender, body |-> fetched.body]
            body_size_before == Len(email.body)
        IN IF fetched.kind = "raise"
           THEN /\ pc' = "raised"
                /\ result' = Raised("ConnectorError")
                /\ log' = Append(log, fetch_event)
                /\ UNCHANGED <<gvars, idx, process_audits, blob_store>>
           ELSE \E p \in {process_email(email, response,
                                         [nodes |-> nodes, edges |-> edges,
                                          ok |-> TRUE, done |-> 0])} :
                /\ nodes' = p.graph.nodes
                /\ edges' = p.graph.edges
                /\ history' = IF p.called
                              THEN Append(history,
                                          [db |-> KnowledgeDb, concepts |-> response.concepts,
                                           email_id |-> GetIdentifier(email),
                                           ts |-> email.date,
                                           source |-> ExtractEmailFromSender(email.sender),
                                           ok |-> p.graph.ok, done |-> p.graph.done])
                              ELSE history
                /\ IF ~p.ok
                   THEN /\ pc' = "raised"
                        /\ result' = Raised(p.error)
                        /\ log' = Append(log, fetch_event) \o p.events
                        /\ UNCHANGED <<idx, process_audits, blob_store>>
                   ELSE LET processed_mail == p.processed_mail
                            mail_audit_record ==
                                ProcessingMailAudit(processed_mail, p.audits,
                                                    body_size_before)
                            blob == [name |-> GetIdentifier(processed_mail.mail) \o <<".json">>,
                                     size |-> Len(processed_mail.mail.body),
                                     data |-> processed_mail]
                            exists == \E i \in 1..Len(blob_store) :
                                          blob_store[i].name = blob.name
                        IN /\ process_audits' = Append(process_audits, mail_audit_record)
                           /\ log' = Append(log, fetch_event) \o p.events
                                        \o <<Event("upload_blob", email.id, "", ~exists)>>
                           /\ IF exists
                              THEN /\ pc' = "raised"
                                   /\ result' = Raised("ResourceExistsError")
                                   /\ UNCHANGED <<idx, blob_store>>
                              ELSE /\ blob_store' = Append(blob_store, blob)
                                   /\ idx' = idx + 1
                                   /\ UNCHANGED <<pc, result>>
    /\ UNCHANGED <<svars, approved, runs, config_items, mailbox, emails, mails_to_process,
                   window, audit_store, pvars, wvars, cvars, kvars, avars, fvars>>

\* process_emails, lines 187-198: assemble the ProcessingAudit, dump it,
\* create the item, return.
FinishRun ==
    /\ pc = "loop"
    /\ idx > Len(mails_to_process)
    /\ LET audit_record == [total_emails_fetched |-> Len(emails),
                            total_emails_processed |-> Len(mails_to_process),
                            mail_start_window |-> window.start,
                            mail_end_window |-> window.end,
                            processed_mails |-> process_audits]
       IN IF ModelDumpRaises(audit_record)
          THEN /\ pc' = "raised"
               /\ result' = Raised("PydanticSerializationError")
               /\ UNCHANGED <<audit_store, log>>
          ELSE /\ audit_store' = Append(audit_store, audit_record)
               /\ log' = Append(log, Event("create_item", 0, "", TRUE))
               /\ pc' = "returned"
               /\ result' = Returned(Len(mails_to_process))
    /\ UNCHANGED <<gvars, svars, approved, runs, config_items, mailbox, emails,
                   mails_to_process, idx, window, process_audits, blob_store, pvars, wvars, cvars, kvars, avars, fvars>>

-----------------------------------------------------------------------------
(* SpecArtifact: the end of one pass of the loop of process_emails, lines
   154-186, entered with what process_email returned *)

\* The message of the pass
PassMessage == [id |-> 1, date |-> 1, sender |-> ExampleAlice]

\* The responses get_response returns
Responses == {response \in ExtractOutcomes : response.kind = "response"}

\* process_emails, lines 144-151: the body fetched for the message, its size
\* taken at line 146, and the pair process_email returns for it
ReturnedFor(message, body, response) ==
    LET cleaned == TextProcessorWrapperProcess(Processors, body, <<>>)
        cleaned_mail == [id |-> message.id, date |-> message.date,
                         sender |-> message.sender, body |-> cleaned.text]
    IN [email_body |-> body,
        body_size_before |-> Len(body),
        processed_mail |-> ProcessedMail(cleaned_mail, response),
        processing_audits |-> cleaned.audits]

\* process_emails, lines 180-185: the RepoBlob of a processed mail
ArtifactBlob(processed_mail) ==
    [name |-> GetIdentifier(processed_mail.mail) \o <<".json">>,
     size |-> Len(processed_mail.mail.body),
     data |-> processed_mail]

\* process_email has returned for the only filtered message of the window;
\* the container is empty or holds the blob an earlier invocation uploaded
\* for the same message.
InitReturned ==
    \E body \in PipelineTexts, response \in Responses,
       source \in {ExtractEmailFromSender(PassMessage.sender)} :
        \E returned_pair \in {ReturnedFor(PassMessage, body, response)},
           r \in {add_knowledge([nodes |-> <<>>, edges |-> EmptyBag, ok |-> TRUE, done |-> 0],
                                KnowledgeDb, response.concepts,
                                GetIdentifier(PassMessage), PassMessage.date, source)} :
           /\ nodes = r.nodes
           /\ edges = r.edges
           /\ history = <<[db |-> KnowledgeDb, concepts |-> response.concepts,
                           email_id |-> GetIdentifier(PassMessage),
                           ts |-> PassMessage.date, source |-> source,
                           ok |-> r.ok, done |-> r.done]>>
           /\ returned = <<returned_pair>>
           /\ headerless = {}
           /\ fetch_max = 0
           /\ basic_emails = <<>>
           /\ blob_store \in {<<>>, <<ArtifactBlob(returned_pair.processed_mail)>>}
           /\ pc = "audit"
           /\ runs = 1
           /\ config_items = ConfigItems
           /\ approved = ExampleAllowList
           /\ mailbox = <<PassMessage>>
           /\ emails = <<PassMessage>>
           /\ mails_to_process = <<PassMessage>>
           /\ idx = 1
           /\ window = [start |-> {PassMessage.date}, end |-> {PassMessage.date}]
           /\ process_audits = <<>>
           /\ audit_store = <<>>
           /\ result = NoResult
           /\ log = [i \in 1..Len(ConfigReads) |->
                        Event("read_item", 0, ConfigReads[i], TRUE)]
                    \o <<Event("fetch_basic_emails", 0, "", TRUE),
                         Event("fetch_full_email_by_id", PassMessage.id, "", TRUE),
                         Event("get_response", PassMessage.id, "", TRUE),
                         Event("add_knowledge", PassMessage.id, "", r.ok)>>

\* process_emails, lines 154-178: build the ProcessingMailAudit and append it
AppendAudit ==
    /\ pc = "audit"
    /\ process_audits' =
           Append(process_audits,
                  ProcessingMailAudit(returned[1].processed_mail,
                                      returned[1].processing_audits,
                                      returned[1].body_size_before))
    /\ pc' = "upload"
    /\ UNCHANGED <<gvars, svars, approved, runs, config_items, mailbox, emails,
                   mails_to_process, idx, window, blob_store, audit_store, result, log,
                   pvars, wvars, cvars, kvars, avars, fvars>>

\* process_emails, lines 179-186: upload the artifact; upload_blob is called
\* without overwrite and raises ResourceExistsError for a name the container
\* holds.
UploadArtifact ==
    /\ pc = "upload"
    /\ LET blob == ArtifactBlob(returned[1].processed_mail)
           exists == \E i \in 1..Len(blob_store) : blob_store[i].name = blob.name
       IN /\ log' = Append(log, Event("upload_blob", returned[1].processed_mail.mail.id,
                                      "", ~exists))
          /\ IF exists
             THEN /\ pc' = "raised"
                  /\ result' = Raised("ResourceExistsError")
                  /\ UNCHANGED <<idx, blob_store>>
             ELSE /\ blob_store' = Append(blob_store, blob)
                  /\ idx' = idx + 1
                  /\ pc' = "loop"
                  /\ UNCHANGED result
    /\ UNCHANGED <<gvars, svars, approved, runs, config_items, mailbox, emails,
                   mails_to_process, window, process_audits, audit_store,
                   pvars, wvars, cvars, kvars, avars, fvars>>

-----------------------------------------------------------------------------
(* SpecFetch: fetch_basic_emails called directly with a max_emails, and by
   process_emails *)

\* The greatest max_emails a direct call is made with
MaxEmailsArg == 3

\* The sets of messages whose header FETCH returns no data: none, or one
HeaderlessSets(box) == {{}} \cup {{box[i].id} : i \in 1..Len(box)}

\* process_emails has read its configuration and stands before line 132; no
\* direct call of fetch_basic_emails has been made.
InitFetch ==
    /\ returned = <<>>
    /\ mailbox \in Mailboxes
    /\ headerless \in HeaderlessSets(mailbox)
    /\ fetch_max \in 0..MaxEmailsArg
    /\ basic_emails = <<>>
    /\ approved = ExampleAllowList
    /\ pc = "fetch"
    /\ runs = 1
    /\ config_items = ConfigItems
    /\ emails = <<>>
    /\ mails_to_process = <<>>
    /\ idx = 1
    /\ window = [start |-> NoDate, end |-> NoDate]
    /\ process_audits = <<>>
    /\ blob_store = <<>>
    /\ audit_store = <<>>
    /\ result = NoResult
    /\ log = [i \in 1..Len(ConfigReads) |-> Event("read_item", 0, ConfigReads[i], TRUE)]

\* application.py, GET /basic-emails: fetch_basic_emails(max_emails=fetch_max)
FetchBasic ==
    /\ basic_emails = <<>>
    /\ basic_emails' = <<FetchBasicEmails(mailbox, fetch_max, headerless)>>
    /\ UNCHANGED <<headerless, fetch_max, gvars, svars, approved, rvars, pvars, wvars,
                   cvars, kvars, avars>>

-----------------------------------------------------------------------------

vars == <<gvars, svars, approved, rvars, pvars, wvars, cvars, kvars, avars, fvars>>

Init ==
    /\ InitGraph /\ InitSenderIdle /\ approved = {} /\ InitRunIdle
    /\ InitPipelineIdle /\ InitWebsiteIdle /\ InitConcurrentIdle /\ InitKnowledgeDatabase

NextGraph == AddKnowledge

SpecGraph == Init /\ [][NextGraph]_vars

\* A graph database before the application has started
InitStartup ==
    /\ InitGraph /\ InitSenderIdle /\ approved = {} /\ InitRunIdle
    /\ InitPipelineIdle /\ InitWebsiteIdle /\ InitConcurrentIdle /\ InitMemgraph

NextProvision == Construct \/ AddKnowledge

SpecProvision == InitStartup /\ [][NextProvision]_vars

\* One fetched message before the sender filter, nothing else started
InitFilter ==
    /\ InitGraph /\ InitSender /\ InitRunIdle
    /\ InitPipelineIdle /\ InitWebsiteIdle /\ InitConcurrentIdle /\ InitKnowledgeDatabase

SpecSender == InitFilter /\ [][FilterSender]_vars

NextRun == LoadConfig \/ FetchAndFilter \/ ProcessMessage \/ FinishRun

\* A MailProcessor on an empty graph, no invocation made yet
InitProcessor ==
    /\ InitGraph /\ InitSenderIdle /\ InitRun
    /\ InitPipelineIdle /\ InitWebsiteIdle /\ InitConcurrentIdle /\ InitKnowledgeDatabase

SpecRun == InitProcessor /\ [][NextRun]_vars

\* The loop of process_emails at line 154 of its first pass
InitPass ==
    /\ InitKnowledgeDatabase /\ InitReturned /\ InitSenderIdle
    /\ InitPipelineIdle /\ InitWebsiteIdle /\ InitConcurrentIdle

NextArtifact == AppendAudit \/ UploadArtifact

SpecArtifact == InitPass /\ [][NextArtifact]_vars

\* A mailbox, before fetch_basic_emails is called
InitMailbox ==
    /\ InitGraph /\ InitSenderIdle /\ InitFetch
    /\ InitPipelineIdle /\ InitWebsiteIdle /\ InitConcurrentIdle /\ InitKnowledgeDatabase

NextFetch == FetchBasic \/ FetchAndFilter

SpecFetch == InitMailbox /\ [][NextFetch]_vars

\* A wrapper and a text, or a pair of sizes, nothing else started
InitTextPipeline ==
    /\ InitGraph /\ InitSenderIdle /\ approved = {} /\ InitRunIdle
    /\ InitPipeline /\ InitWebsiteIdle /\ InitConcurrentIdle /\ InitKnowledgeDatabase

NextPipeline == Process \/ Calculate

SpecPipeline == InitTextPipeline /\ [][NextPipeline]_vars

\* A URL, nothing else started
InitUrl ==
    /\ InitGraph /\ InitSenderIdle /\ approved = {} /\ InitRunIdle
    /\ InitPipelineIdle /\ InitWebsite /\ InitConcurrentIdle /\ InitKnowledgeDatabase

SpecWebsite == InitUrl /\ [][ExtractWebsite]_vars

\* Two add_knowledge calls started on an empty graph
InitCalls ==
    /\ InitGraph /\ InitSenderIdle /\ approved = {} /\ InitRunIdle
    /\ InitPipelineIdle /\ InitWebsiteIdle /\ InitConcurrent /\ InitKnowledgeDatabase

SpecConcurrent == InitCalls /\ [][ExecuteStatement]_vars

\* The latest add_knowledge call
LastCall == history[Len(history)]

-----------------------------------------------------------------------------
(* Claims about the graph upsert *)

SameKey(n, m) == n.label = m.label /\ n.db = m.db /\ n.name = m.name

\* C1: after any sequence of add_knowledge calls the graph holds at most one
\* node per (label, partition, name) triple.
C1_OneNodePerKey ==
    \A i, j \in 1..Len(nodes) : SameKey(nodes[i], nodes[j]) => i = j

\* C1 witness: the latest call returned normally and merged a Concept whose
\* node an earlier call had created (its created_at is not this call's).
C1_Witness ==
    /\ Len(history) >= 2
    /\ LastCall.ok
    /\ \E k \in 1..Len(LastCall.concepts), i \in 1..Len(nodes) :
          /\ NodeMatches(nodes[i], CONCEPT_LABEL, LastCall.db,
                         LastCall.concepts[k].name, LastCall.concepts[k].topic)
          /\ nodes[i].created_at # IsoFormat(LastCall.ts)

\* There is at most one relationship per type and ordered pair of nodes.
NoDuplicateEdge(es) == \A e \in BagToSet(es) : CopiesIn(e, es) = 1

\* The same concepts, message identifier and source, on the same database
SameIngestion(c, d) ==
    /\ c.db = d.db
    /\ c.concepts = d.concepts
    /\ c.email_id = d.email_id
    /\ c.source = d.source

\* C2: a call that repeats the call before it (same concepts, message
\* identifier and source) leaves the edges as they were, with no duplicate.
C2_SecondCallAddsNoEdge ==
    [][(/\ Len(history) >= 1
        /\ Len(history') = Len(history) + 1
        /\ SameIngestion(history[Len(history)], history'[Len(history')]))
       => (edges' = edges /\ NoDuplicateEdge(edges'))]_vars

\* C2 witness: the latest call repeated the one before it, which had returned
\* normally and had created relationships of all five types.
C2_Witness ==
    /\ Len(history) >= 2
    /\ SameIngestion(history[Len(history) - 1], LastCall)
    /\ history[Len(history) - 1].ok
    /\ \A t \in RelationshipTypes : \E e \in BagToSet(edges) : e.type = t

\* C3: created_at of an existing node is never changed by a later call.
C3_CreatedAtKept ==
    [][\A i \in 1..Len(nodes) :
          /\ i <= Len(nodes')
          /\ SameKey(nodes'[i], nodes[i])
          /\ nodes'[i].created_at = nodes[i].created_at]_vars

\* C3 witness: the latest call returned normally and merged, with another
\* timestamp, an Email node that carries its first created_at.
C3_Witness ==
    /\ Len(history) >= 2
    /\ LastCall.ok
    /\ \E k \in 1..Len(LastCall.concepts) : LastCall.concepts[k].keywords # <<>>
    /\ \E i \in 1..Len(nodes) :
          /\ NodeMatches(nodes[i], EMAIL_LABEL, LastCall.db, LastCall.email_id, NoTopic)
          /\ nodes[i].created_at # IsoFormat(LastCall.ts)

\* The graph holds a relationship of this type between nodes with these names
HasEdge(db, type, srcLabel, srcName, dstLabel, dstName) ==
    \E i \in MatchNodes(nodes, srcLabel, db, srcName),
       j \in MatchNodes(nodes, dstLabel, db, dstName) :
        BagIn([type |-> type, src |-> i, dst |-> j], edges)

\* The graph holds the concept's node and the nodes and relationships of each
\* of its URLs and keywords, as a call c of add_knowledge writes them.
Ingested(concept, c) ==
    /\ MatchNodes(nodes, CONCEPT_LABEL, c.db, concept.name) # {}
    /\ \A u \in 1..Len(concept.urls) :
          LET url == concept.urls[u]
              website == ExtractWebsiteFromUrl(url)
          IN /\ HasEdge(c.db, HOSTS_RELATIONSHIP, WEBSITE_LABEL, website, URL_LABEL, url)
             /\ HasEdge(c.db, DESCRIBES_RELATIONSHIP, URL_LABEL, url,
                        CONCEPT_LABEL, concept.name)
    /\ \A k \in 1..Len(concept.keywords) :
          LET keyword == concept.keywords[k]
          IN /\ HasEdge(c.db, REPRESENTS_RELATIONSHIP, KEYWORD_LABEL, keyword,
                        CONCEPT_LABEL, concept.name)
             /\ HasEdge(c.db, CONTAINS_RELATIONSHIP, EMAIL_LABEL, c.email_id,
                        KEYWORD_LABEL, keyword)
             /\ HasEdge(c.db, SENDS_RELATIONSHIP, SOURCE_LABEL, c.source,
                        EMAIL_LABEL, c.email_id)

\* Ingesting the concept on the present graph would not raise
Ingestible(concept, c) ==
    IngestConcept([nodes |-> nodes, edges |-> edges, ok |-> TRUE, done |-> 0],
                  c.db, concept, c.email_id, c.ts, c.source).ok

\* C10: when ingesting one concept of the list fails, every concept after it
\* (that can itself be ingested) still gets its node and edges.
C10_RemainingConceptsIngested ==
    (Len(history) >= 1 /\ ~LastCall.ok) =>
        \A k \in (LastCall.done + 2)..Len(LastCall.concepts) :
            Ingestible(LastCall.concepts[k], LastCall) =>
                Ingested(LastCall.concepts[k], LastCall)

\* The labels a relationship of each type joins, source first
EdgeLabels ==
    {<<HOSTS_RELATIONSHIP, WEBSITE_LABEL, URL_LABEL>>,
     <<DESCRIBES_RELATIONSHIP, URL_LABEL, CONCEPT_LABEL>>,
     <<REPRESENTS_RELATIONSHIP, KEYWORD_LABEL, CONCEPT_LABEL>>,
     <<CONTAINS_RELATIONSHIP, EMAIL_LABEL, KEYWORD_LABEL>>,
     <<SENDS_RELATIONSHIP, SOURCE_LABEL, EMAIL_LABEL>>}

\* C16: after add_knowledge returned normally the graph holds, for every
\* concept c of the call, every URL u and keyword k of c, the nodes c, u,
\* website(u), k, Email and Source and the edges HOSTS website(u)->u,
\* DESCRIBES u->c, REPRESENTS k->c, CONTAINS Email->k, SENDS Source->Email,
\* and no relationship runs in another direction.
C16_NodesAndEdgesPresent ==
    (Len(history) >= 1 /\ LastCall.ok) =>
        /\ \A k \in 1..Len(LastCall.concepts) : Ingested(LastCall.concepts[k], LastCall)
        /\ \A e \in BagToSet(edges) :
               <<e.type, nodes[e.src].label, nodes[e.dst].label>> \in EdgeLabels

\* C16 witness: a call with concepts B (two URLs, two keywords) and A
\* returned normally.
C16_Witness ==
    /\ Len(history) >= 1
    /\ LastCall.ok
    /\ LastCall.concepts = <<ConceptB, ConceptA>>

\* C17: a Concept is keyed by (Concept, partition, name) only: a call that
\* upserts a concept whose name the partition already holds with another
\* topic matches that node and raises no error.
C17_TopicChangeMatches ==
    (/\ Len(history) >= 1
     /\ \A h \in 1..Len(history) : history[h].db = LastCall.db
     /\ \E k \in 1..Len(LastCall.concepts), i \in 1..Len(nodes) :
            /\ nodes[i].label = CONCEPT_LABEL
            /\ nodes[i].db = LastCall.db
            /\ nodes[i].name = LastCall.concepts[k].name
            /\ nodes[i].topic # LastCall.concepts[k].topic) =>
        LastCall.ok


C27_OneNodePerLabelAndName ==
    \A i, j \in 1..Len(nodes) :
        (nodes[i].label = nodes[j].label /\ nodes[i].name = nodes[j].name) => i = j

\* C27 witness: the latest call upserted, in partition db2, a concept whose
\* name an earlier call had created in partition db1; the statement was
\* refused, and the only Concept node of that name is the one in db1.
C27_Witness ==
    /\ Len(history) >= 2
    /\ LastCall.db = "db2"
    /\ ~LastCall.ok
    /\ LastCall.concepts # <<>>
    /\ LET name == LastCall.concepts[1].name
       IN /\ MatchNodes(nodes, CONCEPT_LABEL, "db1", name) # {}
          /\ MatchNodes(nodes, CONCEPT_LABEL, "db2", name) = {}
          /\ \A i \in 1..Len(nodes) : nodes[i].db = "db1"


\* The nodes of the graph ns that carry one of the labels
NodesLabelled(ns, labels) == {i \in 1..Len(ns) : ns[i].label \in labels}

\* The relationships of the bag es that have one of the types
EdgesTyped(es, types) == {e \in BagToSet(es) : e.type \in types}

\* C28: an add_knowledge call in which every concept has an empty keyword
\* list adds no Email node, no Source node, no CONTAINS and no SENDS
\* relationship, whatever URLs its concepts carry; a call with an empty
\* concept list leaves nodes and relationships as they were.
C28_NoKeywordNoProvenance ==
    [][Len(history') = Len(history) + 1 =>
          LET call == history'[Len(history')]
          IN /\ (\A k \in 1..Len(call.concepts) : call.concepts[k].keywords = <<>>) =>
                    /\ NodesLabelled(nodes', {EMAIL_LABEL, SOURCE_LABEL})
                           = NodesLabelled(nodes, {EMAIL_LABEL, SOURCE_LABEL})
                    /\ EdgesTyped(edges', {CONTAINS_RELATIONSHIP, SENDS_RELATIONSHIP})
                           = EdgesTyped(edges, {CONTAINS_RELATIONSHIP, SENDS_RELATIONSHIP})
             /\ call.concepts = <<>> => (nodes' = nodes /\ edges' = edges)]_vars

\* C28 witness: the latest call, for a message no earlier call had named,
\* ingested a concept with a URL and no keyword: the URL is linked to the
\* concept and hosted by its website, and the message has no Email node.
C28_Witness ==
    /\ Len(history) >= 2
    /\ LastCall.ok
    /\ LastCall.concepts = <<ConceptU>>
    /\ history[1].email_id # LastCall.email_id
    /\ history[1].db = LastCall.db
    /\ NodesLabelled(nodes, {EMAIL_LABEL}) # {}
    /\ MatchNodes(nodes, EMAIL_LABEL, LastCall.db, LastCall.email_id) = {}
    /\ HasEdge(LastCall.db, DESCRIBES_RELATIONSHIP, URL_LABEL, UrlB, CONCEPT_LABEL, NameU)
    /\ HasEdge(LastCall.db, HOSTS_RELATIONSHIP, WEBSITE_LABEL,
               ExtractWebsiteFromUrl(UrlB), URL_LABEL, UrlB)

-----------------------------------------------------------------------------
(* Claims about interleaved add_knowledge calls *)

\* A graph without node ids: the nodes, and the relationships between them
GraphOf(ns, es) ==
    [nodes |-> {ns[i] : i \in 1..Len(ns)},
     edges |-> {[type |-> e.type, src |-> ns[e.src], dst |-> ns[e.dst]] :
                    e \in BagToSet(es)}]

\* The graph after the call c ran alone on the graph g
RunAlone(g, c) ==
    add_knowledge([nodes |-> g.nodes, edges |-> g.edges, ok |-> TRUE, done |-> 0],
                  c.db, c.concepts, c.email_id, c.ts, c.source)

\* The graph after the calls c and d ran one after the other on an empty graph
OneAfterTheOther(c, d) ==
    LET g == RunAlone(RunAlone([nodes |-> <<>>, edges |-> EmptyBag], c), d)
    IN GraphOf(g.nodes, g.edges)

\* C20: two add_knowledge calls on one partition whose statements
\* interleave both complete, and leave a graph without duplicate node or
\* edge that equals the graph of the two calls run one after the other.
C20_InterleavedCallsAsSequential ==
    (\A w \in 1..Len(workers) : workers[w].state # "running") =>
        /\ \A w \in 1..Len(workers) : workers[w].state = "returned"
        /\ \A i, j \in 1..Len(nodes) : SameKey(nodes[i], nodes[j]) => i = j
        /\ NoDuplicateEdge(edges)
        /\ Len(workers) = 2 =>
               GraphOf(nodes, edges) \in {OneAfterTheOther(workers[1], workers[2]),
                                          OneAfterTheOther(workers[2], workers[1])}

\* C20 without the topic conflict of C17: when no two concepts of the calls
\* share a name under different topics.
C20_InterleavedCallsSameTopics ==
    (\A w, v \in 1..Len(workers) :
        \A k \in 1..Len(workers[w].concepts), l \in 1..Len(workers[v].concepts) :
            workers[w].concepts[k].name = workers[v].concepts[l].name =>
                workers[w].concepts[k].topic = workers[v].concepts[l].topic) =>
        C20_InterleavedCallsAsSequential

-----------------------------------------------------------------------------
(* Claims about process_emails *)

\* The invocation has ended, by return or by an exception leaving it
RunEnded == pc \in {"raised", "returned"}

\* The positions of the invocation's boundary calls of one kind
Calls(op) == {k \in 1..Len(log) : log[k].op = op}

\* The invocation got past configuration loading and the header fetch
HeadersFetched == \E k \in Calls("fetch_basic_emails") : log[k].ok

\* C4: an error raised while processing one filtered message does not
\* interrupt the loop: when the invocation has ended, every message of the
\* filtered list has been taken up (its body was requested).
C4_EveryFilteredMessageProcessed ==
    RunEnded =>
        \A i \in 1..Len(mails_to_process) :
            \E k \in Calls("fetch_full_email_by_id") : log[k].id = mails_to_process[i].id

\* C5: an invocation that got past configuration loading and the header
\* fetch makes exactly one create_item call, as its last boundary call,
\* whether or not individual messages failed.
C5_ExactlyOneRunAudit ==
    (RunEnded /\ HeadersFetched) =>
        /\ Cardinality(Calls("create_item")) = 1
        /\ log[Len(log)].op = "create_item"

\* C6: with 3 fetched messages, 2 of them from approved senders, and an
\* extraction that failed, process_emails returns 1 and persists a RunAudit
\* with total_emails_fetched = 3, total_emails_processed = 1, exactly one
\* MessageAudit, and exactly one upload was made.
C6_ReturnsSuccessCount ==
    (/\ RunEnded
     /\ Len(emails) = 3
     /\ Len(mails_to_process) = 2
     /\ \E k \in Calls("get_response") : ~log[k].ok) =>
        /\ result = Returned(1)
        /\ Cardinality(Calls("upload_blob")) = 1
        /\ audit_store # <<>>
        /\ LET run_audit == audit_store[Len(audit_store)]
           IN /\ run_audit.total_emails_fetched = 3
              /\ run_audit.total_emails_processed = 1
              /\ Len(run_audit.processed_mails) = 1

\* C8: when no message is fetched or none passes the sender filter,
\* process_emails returns 0 and persists a RunAudit with both window bounds
\* null and an empty processed_mails list.
C8_EmptyWindowReturnsZero ==
    (RunEnded /\ HeadersFetched /\ mails_to_process = <<>>) =>
        /\ result = Returned(0)
        /\ audit_store # <<>>
        /\ LET run_audit == audit_store[Len(audit_store)]
           IN /\ run_audit.mail_start_window = NoDate
              /\ run_audit.mail_end_window = NoDate
              /\ run_audit.processed_mails = <<>>

\* C11: a second process_emails run over a window that holds the same
\* approved message leaves the graph's nodes (created_at included) and edges
\* as the first run left them, completes without error and persists its own
\* RunAudit.
C11_SecondRunIdempotentAndSafe ==
    [][runs' = 2 =>
          /\ nodes' = nodes
          /\ edges' = edges
          /\ (pc' \in {"raised", "returned"} /\ mails_to_process' # <<>>) =>
                 /\ result'.kind = "returned"
                 /\ \E k \in 1..Len(log') : log'[k].op = "create_item"]_vars


\* The boundary calls made for message m come in the order op1 before op2
CalledBefore(m, op1, op2) ==
    \A k2 \in Calls(op2) :
        log[k2].id = m => \E k1 \in Calls(op1) : k1 < k2 /\ log[k1].id = m

FilteredDates == {mails_to_process[i].date : i \in 1..Len(mails_to_process)}

\* C24: mail_start_window and mail_end_window, as handed to the RunAudit,
\* are the least and the greatest timestamp of the sender-filtered messages,
\* whether or not a message failed afterwards; both are null exactly when
\* the filtered list is empty; when they are not null, start <= end.
C24_WindowIsMinMaxOfFiltered ==
    /\ window.start = NoDate <=> mails_to_process = <<>>
    /\ window.end = NoDate <=> mails_to_process = <<>>
    /\ mails_to_process # <<>> =>
           \E first \in FilteredDates, last \in FilteredDates :
               /\ window.start = {first}
               /\ window.end = {last}
               /\ \A d \in FilteredDates : first <= d /\ d <= last
               /\ first <= last

\* C24 witness: two messages passed the filter, the later one first; the
\* first was taken up and failed, which ended the invocation, and the window
\* runs from the second message's timestamp to the first's.
C24_Witness ==
    /\ pc = "raised"
    /\ Len(mails_to_process) = 2
    /\ mails_to_process[1].date = 2
    /\ mails_to_process[2].date = 1
    /\ \E k \in Calls("fetch_full_email_by_id") : log[k].id = mails_to_process[1].id
    /\ window = [start |-> {1}, end |-> {2}]


\* The boundary calls that go to a connector: document store, mail source,
\* graph database, object store
ConnectorOps ==
    {"read_item", "create_item", "fetch_basic_emails", "fetch_full_email_by_id",
     "add_knowledge", "upload_blob"}

\* C26: a connector call that fails is the last boundary call of the
\* invocation: process_emails ends there with the exception leaving it, it
\* returns no processed count, and the caller of the endpoint gets an error
\* and no count.
C26_ConnectorErrorPropagates ==
    \A k \in 1..Len(log) :
        (log[k].op \in ConnectorOps /\ ~log[k].ok) =>
            /\ k = Len(log)
            /\ pc = "raised"
            /\ result.kind = "raised"
            /\ ProcessEmailsEndpoint(result).status_code = 500
            /\ ProcessEmailsEndpoint(result).processed = <<>>

\* C26 witness: the mail source failed on the body of the first filtered
\* message, after the headers had been fetched, and the invocation ended with
\* the connector error.
C26_Witness ==
    /\ pc = "raised"
    /\ result = Raised("ConnectorError")
    /\ HeadersFetched
    /\ log[Len(log)].op = "fetch_full_email_by_id"
    /\ ~log[Len(log)].ok


\* The entries of the per-concept lists of one field, each counted once
ListEntries(concepts, field) ==
    UNION {{<<k, j>> : j \in 1..Len(concepts[k][field])} : k \in 1..Len(concepts)}

LastMatched(box, k) ==
    LET n == IF k <= Len(box) THEN k ELSE Len(box)
    IN [i \in 1..n |-> box[Len(box) - n + i]]

\* The messages of ms whose id is in ids, in the order of ms
RECURSIVE Among(_, _)
Among(ms, ids) ==
    IF ms = <<>> THEN <<>>
    ELSE (IF Head(ms).id \in ids THEN <<Head(ms)>> ELSE <<>>) \o Among(Tail(ms), ids)

\* The ids of the matched messages whose header FETCH returns data
WithHeaders == {mailbox[i].id : i \in 1..Len(mailbox)} \ headerless

\* process_emails has fetched the headers
FetchReturned == pc = "loop"

\* C30 as stated: with max_emails = 0 fetch_basic_emails returns every
\* message the window search matched, in search order; with max_emails = k >
\* 0 it returns the last k matched messages; process_emails calls it with
\* max_emails = 0 and so considers every message of the window.
C30_ZeroMeansEveryMatch ==
    /\ basic_emails # <<>> =>
           basic_emails[1] = IF fetch_max = 0 THEN mailbox
                             ELSE LastMatched(mailbox, fetch_max)
    /\ FetchReturned => emails = mailbox

\* C30, amended: with max_emails = 0 fetch_basic_emails returns, in search
\* order, every matched message whose header FETCH returned data; with
\* max_emails = k > 0 it returns those among the last k matched messages;
\* process_emails calls it with max_emails = 0 and so considers every
\* message of the window whose headers could be fetched.
C30_ZeroMeansEveryMatchWithHeaders ==
    /\ basic_emails # <<>> =>
           basic_emails[1] = Among(IF fetch_max = 0 THEN mailbox
                                   ELSE LastMatched(mailbox, fetch_max),
                                   WithHeaders)
    /\ FetchReturned => emails = Among(mailbox, WithHeaders)

\* C30 witness: on a window of three messages, the second without header
\* data, the direct call with max_emails = 2 returned only the third message
\* and process_emails fetched the first and the third.
C30_Witness ==
    /\ Len(mailbox) = 3
    /\ headerless = {mailbox[2].id}
    /\ fetch_max = 2
    /\ basic_emails = <<<<mailbox[3]>>>>
    /\ FetchReturned
    /\ emails = <<mailbox[1], mailbox[3]>>

-----------------------------------------------------------------------------
(* Claims about the text pipeline *)

\* The outcome of the TextProcessorWrapper.process call
PipelineOutcome == pipeline_result[1]

\* C12: for a processor list [A, B] the returned text is B applied to A's
\* output; there is one StageAudit per processor, in list order; the first
\* audit starts at the input length, each audit ends where the next starts,
\* and the last ends at the length of the returned text.
C12_PipelineComposes ==
    pipeline_result # <<>> =>
        LET n == Len(pipeline_processors)
            audits == PipelineOutcome.audits
        IN /\ n = 0 => PipelineOutcome.text = pipeline_text
           /\ n = 1 => PipelineOutcome.text =
                           ProcessText(pipeline_processors[1], pipeline_text)
           /\ n = 2 => PipelineOutcome.text =
                           ProcessText(pipeline_processors[2],
                                       ProcessText(pipeline_processors[1], pipeline_text))
           /\ Len(audits) = n
           /\ \A i \in 1..n : audits[i].processor_name = pipeline_processors[i]
           /\ n >= 1 => /\ audits[1].start_text_size = Len(pipeline_text)
                        /\ audits[n].end_text_size = Len(PipelineOutcome.text)
           /\ \A i \in 1..(n - 1) : audits[i].end_text_size = audits[i + 1].start_text_size

\* C12 witness: a two-processor pipeline ran, with two different processors
\* that each shortened the text.
C12_Witness ==
    /\ pipeline_result # <<>>
    /\ Len(pipeline_processors) = 2
    /\ pipeline_processors[1] # pipeline_processors[2]
    /\ \A i \in 1..2 : PipelineOutcome.audits[i].end_text_size
                           < PipelineOutcome.audits[i].start_text_size

\* The fraction s is (in - out) / in * 100 when in > 0, and 0 when in = 0
IsSavingsOf(s, in, out) ==
    /\ s[2] # 0
    /\ IF in = 0 THEN s[1] = 0 ELSE s[1] * in = (in - out) * 100 * s[2]

\* The ProcessedMail process_email would return for the pipeline's outcome
PipelineProcessedMail ==
    [mail |-> [id |-> 1, date |-> 1, sender |-> ExampleAlice,
               body |-> PipelineOutcome.text],
     tokens_used |-> 0, tokens_cached |-> 0, concept_count |-> 0,
     keyword_count |-> 0, url_count |-> 0, concepts |-> <<>>]

\* C13: calculate_savings returns (in - out) / in * 100 when in > 0 and 0
\* when in = 0, and the savings percentage of every StageAudit and of the
\* MessageAudit is this function of the sizes recorded with it.
C13_SavingsFormula ==
    /\ savings_percentage # <<>> =>
           IsSavingsOf(savings_percentage[1], size_pair[1], size_pair[2])
    /\ pipeline_result # <<>> =>
           /\ \A i \in 1..Len(PipelineOutcome.audits) :
                  IsSavingsOf(PipelineOutcome.audits[i].savings_percentage,
                              PipelineOutcome.audits[i].start_text_size,
                              PipelineOutcome.audits[i].end_text_size)
           /\ LET audit == ProcessingMailAudit(PipelineProcessedMail,
                                               PipelineOutcome.audits,
                                               Len(pipeline_text))
              IN IsSavingsOf(audit.processing_body_savings_percentage,
                             audit.original_body_size, audit.processed_body_size)

\* C13 witness: calculate_savings was called with 4 and 3.
C13_Witness ==
    /\ savings_percentage # <<>>
    /\ size_pair = <<4, 3>>

\* C14: on empty input the pipeline, and each of the two transformers,
\* gives empty output, and every StageAudit has start_text_size 0,
\* end_text_size 0 and savings percentage 0.
C14_EmptyInputEmptyOutput ==
    /\ \A processor \in {"HtmlProcessor", "NewsletterCleaner"} :
           ProcessText(processor, <<>>) = <<>>
    /\ (pipeline_result # <<>> /\ pipeline_text = <<>>) =>
           /\ PipelineOutcome.text = <<>>
           /\ \A i \in 1..Len(PipelineOutcome.audits) :
                  /\ PipelineOutcome.audits[i].start_text_size = 0
                  /\ PipelineOutcome.audits[i].end_text_size = 0
                  /\ PipelineOutcome.audits[i].savings_percentage[1] = 0
                  /\ PipelineOutcome.audits[i].savings_percentage[2] # 0

\* C14 witness: a two-processor pipeline ran on the empty text.
C14_Witness ==
    /\ pipeline_result # <<>>
    /\ pipeline_text = <<>>
    /\ Len(pipeline_processors) = 2


\* The text holds n consecutive newline characters
HasNewlineRun(s, n) ==
    \E i \in 1..(Len(s) - n + 1) : \A j \in 0..(n - 1) : s[i + j] = "\n"

\* The line starts or ends with whitespace
PaddedLine(line) ==
    line # <<>> /\ (line[1] \in Whitespace \/ line[Len(line)] \in Whitespace)

\* C25: the text a pipeline ending in the boilerplate cleaner returns never
\* holds three or more consecutive newline characters, and none of its lines
\* starts or ends with whitespace.
C25_NoNewlineRunNoPaddedLine ==
    (/\ pipeline_result # <<>>
     /\ pipeline_processors # <<>>
     /\ pipeline_processors[Len(pipeline_processors)] = "NewsletterCleaner") =>
        /\ ~HasNewlineRun(PipelineOutcome.text, 3)
        /\ LET lines == SplitLines(PipelineOutcome.text)
           IN \A i \in 1..Len(lines) : ~PaddedLine(lines[i])

-----------------------------------------------------------------------------
(* Claims about the website derivation *)

\* The texts a text ends with
Suffixes(s) == {SubSeq(s, k, Len(s)) : k \in 1..(Len(s) + 1)}

\* rest is the URL with one leading "http://" or "https://" removed, or the
\* URL itself when it starts with neither
SchemeRemoved(u, rest) ==
    \/ u = HttpPrefix \o rest
    \/ u = HttpsPrefix \o rest
    \/ /\ rest = u
       /\ \A t \in Suffixes(u) : u # HttpPrefix \o t /\ u # HttpsPrefix \o t

\* w is rest cut at its first "/"
CutAtFirstSlash(rest, w) ==
    /\ Len(w) <= Len(rest)
    /\ w = SubSeq(rest, 1, Len(w))
    /\ \A i \in 1..Len(w) : w[i] # "/"
    /\ Len(w) < Len(rest) => rest[Len(w) + 1] = "/"

\* C15: the website of a URL is the URL with one leading "http://" or
\* "https://" removed, cut at the first "/"; "https://news.example.com/path"
\* gives "news.example.com" and "http://example.org" gives "example.org".
C15_WebsiteOfUrl ==
    derived_website # <<>> =>
        /\ \E rest \in Suffixes(given_url) :
               /\ SchemeRemoved(given_url, rest)
               /\ CutAtFirstSlash(rest, derived_website[1])
        /\ given_url = ExampleNewsUrl => derived_website[1] = ExampleNewsWebsite
        /\ given_url = ExampleOrgUrl => derived_website[1] = ExampleOrgWebsite

\* C15 witness: the website of "https://news.example.com/path" was derived.
C15_Witness ==
    /\ derived_website # <<>>
    /\ given_url = ExampleNewsUrl

\* C18: for every message whose concepts were extracted, the graph upsert
\* is called with the concepts, the message identifier, the message
\* timestamp and the source, and every node first created by that call
\* carries the message's timestamp as created_at.
C18_UpsertCalledWithTimestamp ==
    \A k \in Calls("get_response") :
        log[k].ok =>
            \E h \in 1..Len(history), i \in 1..Len(mails_to_process) :
                /\ mails_to_process[i].id = log[k].id
                /\ history[h].email_id = GetIdentifier(mails_to_process[i])
                /\ history[h].ts = mails_to_process[i].date
                /\ history[h].source = ExtractEmailFromSender(mails_to_process[i].sender)
                /\ \A n \in 1..Len(nodes) :
                       nodes[n].name = history[h].email_id =>
                           nodes[n].created_at = IsoFormat(mails_to_process[i].date)

\* C19: when a required configuration item is missing, process_emails
\* aborts with an error while reading the configuration: no header fetch, no
\* extraction, no graph write, no upload and no RunAudit happen.
C19_MissingConfigAbortsBeforeFetch ==
    (runs >= 1 /\ ConfigItems \ config_items # {}) =>
        /\ pc = "raised"
        /\ result.kind = "raised"
        /\ \A k \in 1..Len(log) : log[k].op = "read_item"
        /\ ~log[Len(log)].ok
        /\ log[Len(log)].item \notin config_items
        /\ emails = <<>>
        /\ nodes = <<>>
        /\ edges = EmptyBag
        /\ blob_store = <<>>
        /\ audit_store = <<>>

\* C19 witness: a run found the allow-list, then failed on the missing LLM
\* prompt.
C19_Witness ==
    /\ runs >= 1
    /\ "llm_prompt" \notin config_items
    /\ pc = "raised"
    /\ Len(log) = 2

-----------------------------------------------------------------------------
(* Claims about the sender filter *)

\* The bracketed parts of a `Name <addr>` sender: (i, j) with "<" at i, ">"
\* at j, and in between a non-empty text without ">".
BracketedParts(s) ==
    {p \in (1..Len(s)) \X (1..Len(s)) :
        /\ s[p[1]] = "<"
        /\ s[p[2]] = ">"
        /\ p[1] + 1 < p[2]
        /\ \A k \in (p[1] + 1)..(p[2] - 1) : s[k] # ">"}

\* The text inside the first bracketed part
FirstBracketedText(s) ==
    LET p == CHOOSE x \in BracketedParts(s) : \A y \in BracketedParts(s) : x[1] <= y[1]
    IN SubSeq(s, p[1] + 1, p[2] - 1)

\* The bare address as C9 words it: the text inside angle brackets, else the
\* sender itself when it contains "@", else none.
BareAddressAsClaimed(s) ==
    IF BracketedParts(s) # {} THEN FirstBracketedText(s)
    ELSE IF Contains(s, "@") THEN s
    ELSE None

\* The bare address, with the sender trimmed of surrounding whitespace when
\* it is used as the address
BareAddressTrimmed(s) ==
    IF BracketedParts(s) # {} THEN FirstBracketedText(s)
    ELSE IF Contains(s, "@") THEN Strip(s)
    ELSE None

\* C9 as stated: a message is selected iff its bare address (the text inside
\* angle brackets, else the sender itself if it contains "@") is in the
\* allow-list.
C9_SelectedIffBareAddressAllowed ==
    selected # "unset" => (selected = "selected" <=> BareAddressAsClaimed(sender) \in approved)

\* C9 amended: a message is selected iff its bare address is in the
\* allow-list, the bare address of an unbracketed sender containing "@" being
\* the sender trimmed of surrounding whitespace; of the example senders only
\* "Alice <a@x.com>" passes allow-list {"a@x.com"}.
C9_SelectedIffTrimmedAddressAllowed ==
    selected # "unset" =>
        /\ selected = "selected" <=> BareAddressTrimmed(sender) \in approved
        /\ (approved = ExampleAllowList /\ sender \in ExampleSenders) =>
               (selected = "selected" <=> sender = ExampleAlice)

\* C9 witness: the filter ran on the example and let "Alice <a@x.com>" pass.
C9_Witness ==
    /\ selected = "selected"
    /\ sender = ExampleAlice
    /\ approved = ExampleAllowList

====
